---- MODULE Spec2Model ----
(***************************************************************************)
(* bininfo (src/main.c): the patch-table decoder LoadPass1 with its        *)
(* import-run parser LoadOneImport, and the header checks of main.         *)
(*                                                                         *)
(* Offsets are byte offsets into binfile (0-based); buf[p+1] is the byte   *)
(* at offset p.  The code checks no bound: a read at an offset the buffer  *)
(* does not hold is undefined behaviour, modelled as a choice between a    *)
(* fault (SIGSEGV) and an indeterminate byte.                              *)
(***************************************************************************)
EXTENDS Integers, Sequences, FiniteSets, TLC

(* ---- entry-type codes ---- *)
IET_END == 0
IET_REL_I0 == 2
IET_IMM_U0 == 3
IET_REL_I8 == 4
IET_IMM_U8 == 5
IET_REL_I16 == 6
IET_IMM_U16 == 7
IET_REL_I32 == 8
IET_IMM_U32 == 9
IET_REL_I64 == 10
IET_IMM_I64 == 11
IET_REL32_EXPORT == 16
IET_IMM32_EXPORT == 17
IET_REL64_EXPORT == 18
IET_IMM64_EXPORT == 19
IET_ABS_ADDR == 20
IET_CODE_HEAP == 21
IET_ZEROED_CODE_HEAP == 22
IET_DATA_HEAP == 23
IET_ZEROED_DATA_HEAP == 24
IET_MAIN == 25

(* sizeof(CBinFile): 2 + 1 + 1 + 4 + 8 + 8 + 8 *)
HeaderSize == 32

(* ---- bounds of the model ---- *)
\* records before the terminator in a generated patch table
MaxRecs == 3
\* payload words of a generated ABS_ADDR record
MaxWords == 1
\* module bytes between the start of the buffer and the patch table
MaxPad == 1
\* generated tables of at most this many records are also cut short
MaxTruncRecs == 1
\* bytes past the allocation that can be read before the read faults
MaxOverrun == 2
\* bytes by which the declared file_size differs from the size of the file
MaxDelta == 1

(* the bytes an indeterminate read may deliver: a zero or a non-zero byte *)
GarbageBytes == {0, 127}
GarbageChar == CHOOSE b \in GarbageBytes : b # 0

VARIABLES
  \* main: the input file, the arguments, and main's locals
  file, argc, fopenOk, mpc, bfh, module_align, rc, err, status,
  \* the loaded image: its initialised bytes and the size of its allocation
  buf, alloc,
  \* LoadPass1 and LoadOneImport: cursor, position, locals, standard output
  src, pc, etype, i, st_ptr, name, cnt, j, first, counter, out,
  \* the records the buffer was generated from, and where the table starts
  table, base,
  \* history: highest offset read, loop-body entries, offset of the entry the
  \* main loop is handling, values of the latest import block, latest event,
  \* cursor after every step
  hi, iters, entry, block, ev, trace,
  \* the run number, and the output and cursor trace of the run before
  run, out1, trace1

mainVars == <<file, argc, fopenOk, mpc, bfh, module_align, rc, err, status>>
imageVars == <<buf, alloc>>
truthVars == <<table, base>>
twiceVars == <<run, out1, trace1>>
vars == <<file, argc, fopenOk, mpc, bfh, module_align, rc, err, status,
          buf, alloc, src, pc, etype, i, st_ptr, name, cnt, j, first,
          counter, out, table, base, hi, iters, entry, block, ev, trace,
          run, out1, trace1>>

(* ---- little-endian integers (memcpy into a zeroed integer, x86) ---- *)
RECURSIVE LE(_)
LE(bs) == IF bs = <<>> THEN 0 ELSE Head(bs) + 256 * LE(Tail(bs))

Bytes4(v) ==
  <<v % 256, (v \div 256) % 256, (v \div 65536) % 256, (v \div 16777216) % 256>>

Bytes8(v) == Bytes4(v) \o <<0, 0, 0, 0>>

(* ---- reads ---- *)
InBuf(p) == p >= 0 /\ p < Len(buf)

\* an offset a read can touch without faulting for certain
Mapped(p) == p < alloc + MaxOverrun

Max(a, b) == IF a >= b THEN a ELSE b

\* *p: the byte at offset p
Rd(p) == IF InBuf(p) THEN {buf[p + 1]} ELSE GarbageBytes

\* memcpy(&i, p, 4) into a zeroed integer
Rd4(p) ==
  {LE(<<b0, b1, b2, b3>>) :
     b0 \in Rd(p), b1 \in Rd(p + 1), b2 \in Rd(p + 2), b3 \in Rd(p + 3)}

\* the bytes strlen(p) passes inside the buffer
RECURSIVE StrIn(_)
StrIn(p) ==
  IF ~InBuf(p) \/ buf[p + 1] = 0 THEN <<>> ELSE <<buf[p + 1]>> \o StrIn(p + 1)

\* strlen(p) finds its terminator inside the buffer
Terminated(p) == InBuf(p + Len(StrIn(p)))

\* the strings a read of the C string at p may deliver
StrAt(p) ==
  IF Terminated(p)
  THEN {StrIn(p)}
  ELSE {StrIn(p) \o [k \in 1..g |-> GarbageChar] :
          g \in 0..(alloc + MaxOverrun - 1 - (p + Len(StrIn(p))))}

(* ---- etype_to_string ---- *)
\* the label printed for a type code: a catalog name, or "IET_#" and the code
Label(nm, num) == [name |-> nm, num |-> num]
NoLabel == Label("", -1)

\* char const* etype_names[]: the catalog, "" standing for NULL
etype_names ==
  <<"IET_END", "", "IET_REL_I0", "IET_IMM_U0", "IET_REL_I8", "IET_IMM_U8",
    "IET_REL_I16", "IET_IMM_U16", "IET_REL_I32", "IET_IMM_U32", "IET_REL_I64",
    "IET_IMM_I64", "", "", "", "", "IET_REL32_EXPORT", "IET_IMM32_EXPORT",
    "IET_REL64_EXPORT", "IET_IMM64_EXPORT", "IET_ABS_ADDR", "IET_CODE_HEAP",
    "IET_ZEROED_CODE_HEAP", "IET_DATA_HEAP", "IET_ZEROED_DATA_HEAP", "IET_MAIN">>

\* the lookup without its test of the NULL entries of etype_names
etype_to_string_nonull(e) ==
  IF e >= 0 /\ e < Len(etype_names)
  THEN Label(etype_names[e + 1], -1)
  ELSE Label("IET_#", e)

etype_to_string(e) ==
  IF e >= 0 /\ e < Len(etype_names) /\ etype_names[e + 1] # ""
  THEN Label(etype_names[e + 1], -1)
  ELSE Label("IET_#", e)

(* ---- standard output, one item per printf ---- *)
Item(k, ty, nm, v) == [k |-> k, ty |-> ty, nm |-> nm, v |-> v]
Txt(k) == Item(k, NoLabel, <<>>, 0)
ValItem(v) == Item("val", NoLabel, <<>>, v)

\* the "\n      " that starts a new line before every 8th value but the first
Wrap(n) == IF n # 0 /\ n % 8 = 0 THEN <<Txt("wrap")>> ELSE <<>>

(* ---- cursor arithmetic ---- *)
\* st_ptr-5: from the first byte of a name back over the 4-byte value and the
\* type byte
RewindToValue(p) == p - 4

Rewind(p) == p - 5

\* if (*st_ptr) { if (!first) ...: a non-empty name behind the anchor ends
\* the run
EndsRunAtAnyName(nm, fst) == nm # <<>>

EndsRun(nm, fst) == nm # <<>> /\ ~fst

\* src-1 of *_src=src-1: from behind the type-0 byte just read back onto it
StayBehindTerminator(p) == p

OntoTerminator(p) == p - 1

\* src+=StrLen(st_ptr)+1
AfterNameNoTerminator(p, s) == p + Len(s)

AfterName(p, s) == p + Len(s) + 1

\* the test j<cnt of the payload loop
AbsContinueInclusive(jj, n) == jj <= n

AbsContinue(jj, n) == jj < n

\* memcmp(bfh.bin_signature, BIN_SIGNATURE, sizeof(bfh.bin_signature)) == 0
SameSignaturePrefix(a, b) == SubSeq(a, 1, 3) = SubSeq(b, 1, 3)

SameSignature(a, b) == SubSeq(a, 1, 4) = SubSeq(b, 1, 4)

(* ---- the switch of LoadPass1 ---- *)
IsExport(e) ==
  e \in {IET_REL32_EXPORT, IET_IMM32_EXPORT, IET_REL64_EXPORT, IET_IMM64_EXPORT}

IsImport(e) ==
  e \in {IET_REL_I0, IET_IMM_U0, IET_REL_I8, IET_IMM_U8, IET_REL_I16,
         IET_IMM_U16, IET_REL_I32, IET_IMM_U32, IET_REL_I64, IET_IMM_I64}

IsHandled(e) == IsExport(e) \/ IsImport(e) \/ e = IET_ABS_ADDR \/ e = IET_MAIN
(* ---- generated patch tables ---- *)
\* {type: u8, value: u32-LE, name: null-terminated string}, then the payload
\* words of an ABS_ADDR record
EncWords(ws) ==
  LET RECURSIVE F(_)
      F(k) == IF k > Len(ws) THEN <<>> ELSE Bytes4(ws[k]) \o F(k + 1)
  IN F(1)

EncRecord(r) ==
  <<r.type>> \o Bytes4(r.value) \o r.name \o <<0>> \o EncWords(r.words)

RecLen(r) == 1 + 4 + Len(r.name) + 1 + 4 * Len(r.words)

\* the records of tbl, then the type-0 terminator
EncTable(tbl) ==
  LET RECURSIVE F(_)
      F(k) == IF k > Len(tbl) THEN <<IET_END>> ELSE EncRecord(tbl[k]) \o F(k + 1)
  IN F(1)

\* offset of the type byte of record k of tbl in a buffer whose table starts
\* at b (record Len(tbl) + 1 is the terminator)
Off(tbl, b, k) ==
  LET RECURSIVE F(_)
      F(m) == IF m >= k THEN 0 ELSE RecLen(tbl[m]) + F(m + 1)
  IN b + F(1)

Classes == {"import", "export", "abs", "main", "unhandled"}
ImportCodes == <<IET_IMM_U32, IET_REL_I8, IET_IMM_I64, IET_REL_I0>>
ExportCodes == <<IET_IMM32_EXPORT, IET_REL64_EXPORT, IET_REL32_EXPORT, IET_IMM64_EXPORT>>
UnhandledCodes == <<IET_CODE_HEAP, 1, 26, 12>>
Pick(codes, p) == codes[((p - 1) % Len(codes)) + 1]

\* what is chosen for each record: its class, whether it is named, and for an
\* ABS_ADDR record its count; the rest of the record follows from its
\* position p, so that a value in the output tells which record it came from
Kinds ==
  {kd \in [class : Classes, named : BOOLEAN, n : {0, MaxWords}] :
     kd.class # "abs" => kd.n = 0}

Rec(p, kd) ==
  [type |-> CASE kd.class = "import" -> Pick(ImportCodes, p)
              [] kd.class = "export" -> Pick(ExportCodes, p)
              [] kd.class = "abs" -> IET_ABS_ADDR
              [] kd.class = "main" -> IET_MAIN
              [] OTHER -> Pick(UnhandledCodes, p),
   value |-> CASE kd.class = "abs" -> kd.n
               [] kd.class = "main" -> 4096 * p
               [] OTHER -> 3 + 2 * p,
   name |-> IF ~kd.named THEN <<>>
            ELSE IF p % 2 = 0 THEN <<87 + p, 87 + p>> ELSE <<87 + p>>,
   words |-> [k \in 1..kd.n |-> 16 * p + k]]

\* the table of the records chosen by ks
TableOf(ks) == [p \in 1..Len(ks) |-> Rec(p, ks[p])]

PadBytes(b) == [k \in 1..b |-> 1]

\* the lengths a generated table is cut to: whole, or any shorter length when
\* the table is small
Cuts(tbl) ==
  {Len(EncTable(tbl))} \cup
  (IF Len(tbl) <= MaxTruncRecs THEN 0..(Len(EncTable(tbl)) - 1) ELSE {})

(* ---- the file header ---- *)
BIN_SIGNATURE == <<84, 79, 83, 66>>

NoHeader ==
  [jmp |-> <<0, 0>>, module_align_bits |-> 0, reserved |-> 0,
   bin_signature |-> <<0, 0, 0, 0>>, org |-> 0, patch_table_offset |-> 0,
   file_size |-> 0]

\* the bytes of a CBinFile
HeaderBytes(bits, sig, pto, fsize) ==
  <<1, 2, bits, 0>> \o sig \o Bytes8(0) \o Bytes8(pto) \o Bytes8(fsize)

\* fread(&bfh, sizeof(bfh), 1, f): the struct as laid out in the file
ReadHeader(f) ==
  [jmp |-> SubSeq(f, 1, 2), module_align_bits |-> f[3], reserved |-> f[4],
   bin_signature |-> SubSeq(f, 5, 8), org |-> LE(SubSeq(f, 9, 16)),
   patch_table_offset |-> LE(SubSeq(f, 17, 24)),
   file_size |-> LE(SubSeq(f, 25, 32))]

\* 1 << bits on a 32-bit int, widened to I64.  A count of 32 or more is
\* undefined: the build either masks the count to 5 bits or delivers 0
RECURSIVE ShiftLeft(_)
ShiftLeft(bits) ==
  IF bits < 31 THEN {2 ^ bits}
  ELSE IF bits = 31 THEN {-2147483647 - 1}
  ELSE {0} \cup ShiftLeft(bits % 32)

(* ---- initial states ---- *)
\* LoadPass1 has just been entered on binfile + b and has printed its title
DecoderStart(b) ==
  /\ src = b
  /\ pc = "p1_loop"
  /\ etype = 0 /\ i = 0 /\ st_ptr = 0 /\ name = <<>>
  /\ cnt = 0 /\ j = 0 /\ first = TRUE /\ counter = 0
  /\ out = <<Txt("Patch table:")>>
  /\ hi = -1 /\ iters = 0 /\ entry = b /\ block = <<>> /\ ev = "start"
  /\ trace = <<b>>

\* main's side of a call LoadPass1(binfile + b, ...) on a loaded image
MainIdle ==
  /\ file = <<>> /\ argc = 2 /\ fopenOk = TRUE /\ mpc = "call"
  /\ bfh = NoHeader /\ module_align = 1 /\ rc = -1 /\ err = <<>>
  /\ status = "running"

Init ==
  /\ \E n \in 0..MaxRecs, b \in {0, MaxPad} :
       \E ks \in [1..n -> Kinds] :
         \E cut \in Cuts(TableOf(ks)) :
           /\ table = TableOf(ks)
           /\ base = b
           /\ buf = PadBytes(b) \o SubSeq(EncTable(table), 1, cut)
  /\ alloc = Len(buf)
  /\ DecoderStart(base)
  /\ MainIdle
  /\ run = 1 /\ out1 = <<>> /\ trace1 = <<>>

(* ---- LoadPass1 ---- *)
Running == status = "running"

\* while (etype=*src++)
P1_ReadType ==
  /\ Running /\ pc = "p1_loop" /\ Mapped(src)
  /\ \E b \in Rd(src) :
       /\ etype' = b
       /\ pc' = IF b = IET_END THEN "done" ELSE "p1_value"
       /\ iters' = IF b = IET_END THEN iters ELSE iters + 1
       /\ ev' = IF b = IET_END THEN "done" ELSE "type"
  /\ src' = src + 1
  /\ entry' = src
  /\ hi' = Max(hi, src)
  /\ trace' = Append(trace, src')
  /\ UNCHANGED <<i, st_ptr, name, cnt, j, first, counter, out, block>>
  /\ UNCHANGED <<mainVars, imageVars, truthVars, twiceVars>>

\* uint32_t i = 0; memcpy(&i, src, 4); src += 4;
P1_ReadValue ==
  /\ Running /\ pc = "p1_value" /\ Mapped(src + 3)
  /\ \E v \in Rd4(src) : i' = v
  /\ src' = src + 4
  /\ pc' = "p1_name"
  /\ hi' = Max(hi, src + 3)
  /\ ev' = "value"
  /\ trace' = Append(trace, src')
  /\ UNCHANGED <<etype, st_ptr, name, cnt, j, first, counter, out, iters, entry, block>>
  /\ UNCHANGED <<mainVars, imageVars, truthVars, twiceVars>>

\* st_ptr=src; src+=StrLen(st_ptr)+1; printf("  entry %s \"%s\"\n", ...)
P1_ReadName ==
  /\ Running /\ pc = "p1_name"
  /\ \E s \in StrAt(src) :
       /\ name' = s
       /\ src' = AfterName(src, s)
       /\ hi' = Max(hi, src + Len(s))
       /\ out' = Append(out, Item("entry", etype_to_string(etype), s, 0))
  /\ st_ptr' = src
  /\ pc' = "p1_switch"
  /\ ev' = "name"
  /\ trace' = Append(trace, src')
  /\ UNCHANGED <<etype, i, cnt, j, first, counter, iters, entry, block>>
  /\ UNCHANGED <<mainVars, imageVars, truthVars, twiceVars>>

\* case IET_REL32_EXPORT .. IET_IMM64_EXPORT
P1_Export ==
  /\ Running /\ pc = "p1_switch" /\ IsExport(etype)
  /\ out' = Append(out, Item("export", NoLabel, name, i))
  /\ pc' = "p1_loop"
  /\ ev' = "export"
  /\ trace' = Append(trace, src)
  /\ UNCHANGED <<src, etype, i, st_ptr, name, cnt, j, first, counter, hi, iters, entry, block>>
  /\ UNCHANGED <<mainVars, imageVars, truthVars, twiceVars>>

\* case IET_REL_I0 .. IET_IMM_I64: src=st_ptr-5; LoadOneImport(&src,...);
\* up to LoadOneImport's printf("    at") and the start of its loop
P1_Import ==
  /\ Running /\ pc = "p1_switch" /\ IsImport(etype)
  /\ src' = Rewind(st_ptr)
  /\ first' = TRUE
  /\ counter' = 0
  /\ out' = Append(out, Txt("at"))
  /\ block' = <<>>
  /\ pc' = "imp_loop"
  /\ ev' = "import"
  /\ trace' = Append(trace, src')
  /\ UNCHANGED <<etype, i, st_ptr, name, cnt, j, hi, iters, entry>>
  /\ UNCHANGED <<mainVars, imageVars, truthVars, twiceVars>>

\* case IET_ABS_ADDR: printf("    at"); cnt=i; for (j=0; ...
P1_AbsAddr ==
  /\ Running /\ pc = "p1_switch" /\ etype = IET_ABS_ADDR
  /\ out' = Append(out, Txt("at"))
  /\ cnt' = i
  /\ j' = 0
  /\ pc' = "abs_loop"
  /\ ev' = "abs"
  /\ trace' = Append(trace, src)
  /\ UNCHANGED <<src, etype, i, st_ptr, name, first, counter, hi, iters, entry, block>>
  /\ UNCHANGED <<mainVars, imageVars, truthVars, twiceVars>>

\* the body of for (j=0;j<cnt;j++): one payload word read and printed
P1_AbsWord ==
  /\ Running /\ pc = "abs_loop" /\ AbsContinue(j, cnt) /\ Mapped(src + 3)
  /\ \E v \in Rd4(src) : out' = out \o Wrap(j) \o <<ValItem(v)>>
  /\ src' = src + 4
  /\ j' = j + 1
  /\ hi' = Max(hi, src + 3)
  /\ ev' = "word"
  /\ trace' = Append(trace, src')
  /\ UNCHANGED <<pc, etype, i, st_ptr, name, cnt, first, counter, iters, entry, block>>
  /\ UNCHANGED <<mainVars, imageVars, truthVars, twiceVars>>

\* j<cnt fails: printf("\n"); break;
P1_AbsEnd ==
  /\ Running /\ pc = "abs_loop" /\ ~AbsContinue(j, cnt)
  /\ out' = Append(out, Txt("nl"))
  /\ pc' = "p1_loop"
  /\ ev' = "abs_end"
  /\ trace' = Append(trace, src)
  /\ UNCHANGED <<src, etype, i, st_ptr, name, cnt, j, first, counter, hi, iters, entry, block>>
  /\ UNCHANGED <<mainVars, imageVars, truthVars, twiceVars>>

\* case IET_MAIN
P1_Main ==
  /\ Running /\ pc = "p1_switch" /\ etype = IET_MAIN
  /\ out' = Append(out, Item("main", NoLabel, <<>>, i))
  /\ pc' = "p1_loop"
  /\ ev' = "main"
  /\ trace' = Append(trace, src)
  /\ UNCHANGED <<src, etype, i, st_ptr, name, cnt, j, first, counter, hi, iters, entry, block>>
  /\ UNCHANGED <<mainVars, imageVars, truthVars, twiceVars>>

\* default: printf("    UNHANDLED\n");
P1_Unhandled ==
  /\ Running /\ pc = "p1_switch" /\ ~IsHandled(etype)
  /\ out' = Append(out, Txt("UNHANDLED"))
  /\ pc' = "p1_loop"
  /\ ev' = "unhandled"
  /\ trace' = Append(trace, src)
  /\ UNCHANGED <<src, etype, i, st_ptr, name, cnt, j, first, counter, hi, iters, entry, block>>
  /\ UNCHANGED <<mainVars, imageVars, truthVars, twiceVars>>

(* ---- LoadOneImport (its src, i and st_ptr are the model's: LoadPass1 ---- *)
(* ---- reads none of its own before it has set them again)            ---- *)
\* for (...; etype=*src++; ...), and when it reads 0: *_src=src-1;
\* printf("\n"); and the return
Imp_ReadType ==
  /\ Running /\ pc = "imp_loop" /\ Mapped(src)
  /\ \E b \in Rd(src) :
       IF b = 0
       THEN /\ src' = OntoTerminator(src + 1)
            /\ out' = Append(out, Txt("nl"))
            /\ pc' = "p1_loop"
            /\ ev' = "imp_end"
       ELSE /\ src' = src + 1
            /\ out' = out
            /\ pc' = "imp_value"
            /\ ev' = "imp_type"
  /\ hi' = Max(hi, src)
  /\ trace' = Append(trace, src')
  /\ UNCHANGED <<etype, i, st_ptr, name, cnt, j, first, counter, iters, entry, block>>
  /\ UNCHANGED <<mainVars, imageVars, truthVars, twiceVars>>

\* uintptr_t i = 0; memcpy(&i, src, 4); src += 4;
Imp_ReadValue ==
  /\ Running /\ pc = "imp_value" /\ Mapped(src + 3)
  /\ \E v \in Rd4(src) : i' = v
  /\ src' = src + 4
  /\ pc' = "imp_name"
  /\ hi' = Max(hi, src + 3)
  /\ ev' = "imp_value"
  /\ trace' = Append(trace, src')
  /\ UNCHANGED <<etype, st_ptr, name, cnt, j, first, counter, out, iters, entry, block>>
  /\ UNCHANGED <<mainVars, imageVars, truthVars, twiceVars>>

\* st_ptr=src; src+=StrLen(st_ptr)+1;
Imp_ReadName ==
  /\ Running /\ pc = "imp_name"
  /\ \E s \in StrAt(src) :
       /\ name' = s
       /\ src' = AfterName(src, s)
       /\ hi' = Max(hi, src + Len(s))
  /\ st_ptr' = src
  /\ pc' = "imp_body"
  /\ ev' = "imp_name"
  /\ trace' = Append(trace, src')
  /\ UNCHANGED <<etype, i, cnt, j, first, counter, out, iters, entry, block>>
  /\ UNCHANGED <<mainVars, imageVars, truthVars, twiceVars>>

\* if (*st_ptr) { if (!first) { *_src=st_ptr-5; printf("\n"); return; }
\* else first=FALSE; } ... printf(" %8Xh", i); counter++
Imp_Body ==
  /\ Running /\ pc = "imp_body"
  /\ IF EndsRun(name, first)
     THEN /\ src' = Rewind(st_ptr)
          /\ out' = Append(out, Txt("nl"))
          /\ pc' = "p1_loop"
          /\ ev' = "imp_next"
          /\ UNCHANGED <<first, counter, block>>
     ELSE /\ first' = IF name # <<>> THEN FALSE ELSE first
          /\ out' = out \o Wrap(counter) \o <<ValItem(i)>>
          /\ block' = Append(block, i)
          /\ counter' = counter + 1
          /\ pc' = "imp_loop"
          /\ ev' = "imp_val"
          /\ src' = src
  /\ trace' = Append(trace, src')
  /\ UNCHANGED <<etype, i, st_ptr, name, cnt, j, hi, iters, entry>>
  /\ UNCHANGED <<mainVars, imageVars, truthVars, twiceVars>>

(* ---- a read outside the allocation ---- *)
\* the last offset the read the decoder is about to make touches
PendingLast ==
  CASE pc \in {"p1_loop", "imp_loop"} -> src
    [] pc \in {"p1_value", "imp_value"} -> src + 3
    [] pc = "abs_loop" /\ AbsContinue(j, cnt) -> src + 3
    [] pc \in {"p1_name", "imp_name"} ->
         IF Terminated(src) THEN src + Len(StrIn(src)) ELSE Max(alloc, src)
    [] OTHER -> -1

\* the read faults: the process is killed by a signal
Fault ==
  /\ Running
  /\ PendingLast >= alloc
  /\ pc' = "crashed"
  /\ status' = "crashed"
  /\ ev' = "fault"
  /\ UNCHANGED <<file, argc, fopenOk, mpc, bfh, module_align, rc, err>>
  /\ UNCHANGED <<src, etype, i, st_ptr, name, cnt, j, first, counter, out,
                 hi, iters, entry, block, trace>>
  /\ UNCHANGED <<imageVars, truthVars, twiceVars>>

Decode ==
  \/ P1_ReadType \/ P1_ReadValue \/ P1_ReadName
  \/ P1_Export \/ P1_Import \/ P1_AbsAddr \/ P1_AbsWord \/ P1_AbsEnd
  \/ P1_Main \/ P1_Unhandled
  \/ Imp_ReadType \/ Imp_ReadValue \/ Imp_ReadName \/ Imp_Body
  \/ Fault

Next == Decode

(* ---- main ---- *)
\* return rc (or the return -1 before the file is open)
Return(code) ==
  /\ rc' = code
  /\ status' = "returned"
  /\ mpc' = "exit"

DecoderIdle ==
  UNCHANGED <<src, pc, etype, i, st_ptr, name, cnt, j, first, counter,
              hi, iters, entry, block, trace>>

\* if (argc != 2) { usage; return -1; }
M_Args ==
  /\ Running /\ mpc = "start"
  /\ IF argc # 2
     THEN /\ err' = Append(err, "usage")
          /\ Return(-1)
     ELSE /\ mpc' = "fopen"
          /\ UNCHANGED <<err, rc, status>>
  /\ ev' = "args"
  /\ UNCHANGED <<file, argc, fopenOk, bfh, module_align, out>>
  /\ DecoderIdle
  /\ UNCHANGED <<imageVars, truthVars, twiceVars>>

\* f = fopen(filename, "rb"); if (!f) { strerror; return -1; }
M_Open ==
  /\ Running /\ mpc = "fopen"
  /\ IF ~fopenOk
     THEN /\ err' = Append(err, "strerror")
          /\ Return(-1)
     ELSE /\ mpc' = "header"
          /\ UNCHANGED <<err, rc, status>>
  /\ ev' = "open"
  /\ UNCHANGED <<file, argc, fopenOk, bfh, module_align, out>>
  /\ DecoderIdle
  /\ UNCHANGED <<imageVars, truthVars, twiceVars>>

\* if (!fread(&bfh, sizeof(bfh), 1, f)) { incomplete header; goto exit1; }
M_ReadHeader ==
  /\ Running /\ mpc = "header"
  /\ IF Len(file) < HeaderSize
     THEN /\ err' = Append(err, "incomplete header")
          /\ Return(rc)
          /\ bfh' = bfh
     ELSE /\ bfh' = ReadHeader(file)
          /\ mpc' = "signature"
          /\ UNCHANGED <<err, rc, status>>
  /\ ev' = "header"
  /\ UNCHANGED <<file, argc, fopenOk, module_align, out>>
  /\ DecoderIdle
  /\ UNCHANGED <<imageVars, truthVars, twiceVars>>

\* if (memcmp(bfh.bin_signature, BIN_SIGNATURE, 4) != 0) { ...; goto exit1; }
M_CheckSignature ==
  /\ Running /\ mpc = "signature"
  /\ IF ~SameSignature(bfh.bin_signature, BIN_SIGNATURE)
     THEN /\ err' = Append(err, "signature")
          /\ Return(rc)
     ELSE /\ mpc' = "alignment"
          /\ UNCHANGED <<err, rc, status>>
  /\ ev' = "signature"
  /\ UNCHANGED <<file, argc, fopenOk, bfh, module_align, out>>
  /\ DecoderIdle
  /\ UNCHANGED <<imageVars, truthVars, twiceVars>>

\* I64 module_align = 1 << bfh.module_align_bits;
\* if (!module_align) { invalid alignment; goto exit1; }
M_CheckAlignment ==
  /\ Running /\ mpc = "alignment"
  /\ \E m \in ShiftLeft(bfh.module_align_bits) :
       /\ module_align' = m
       /\ IF m = 0
          THEN /\ err' = Append(err, "invalid alignment")
               /\ Return(rc)
          ELSE /\ mpc' = "dump"
               /\ UNCHANGED <<err, rc, status>>
  /\ ev' = "alignment"
  /\ UNCHANGED <<file, argc, fopenOk, bfh, out>>
  /\ DecoderIdle
  /\ UNCHANGED <<imageVars, truthVars, twiceVars>>

\* printf("bininfo %s\n\n", ...) and the header dump
M_Dump ==
  /\ Running /\ mpc = "dump"
  /\ out' = out \o <<Txt("bininfo"), Txt("BIN header:"),
                     Item("jmp", NoLabel, bfh.jmp, 0),
                     Item("alignment", NoLabel, <<>>, module_align),
                     Item("org", NoLabel, <<>>, bfh.org),
                     Item("patch_table_offset", NoLabel, <<>>, bfh.patch_table_offset),
                     Item("file_size", NoLabel, <<>>, bfh.file_size)>>
  /\ mpc' = "load"
  /\ ev' = "dump"
  /\ UNCHANGED <<file, argc, fopenOk, bfh, module_align, rc, err, status>>
  /\ DecoderIdle
  /\ UNCHANGED <<imageVars, truthVars, twiceVars>>

Min(a, b) == IF a <= b THEN a ELSE b

\* binfile = malloc(bfh.file_size); fseek(f, 0, SEEK_SET);
\* r = fread(binfile, 1, bfh.file_size, f); if (r != bfh.file_size) warning
M_Load ==
  /\ Running /\ mpc = "load"
  /\ alloc' = bfh.file_size
  /\ buf' = SubSeq(file, 1, Min(bfh.file_size, Len(file)))
  /\ err' = IF Len(buf') # bfh.file_size
            THEN Append(err, "warning: invalid file_size (expected, got)")
            ELSE err
  /\ mpc' = "tail"
  /\ ev' = "load"
  /\ UNCHANGED <<file, argc, fopenOk, bfh, module_align, rc, status, out>>
  /\ DecoderIdle
  /\ UNCHANGED <<truthVars, twiceVars>>

\* if (fread(&dummy, 1, 1, f)) warning: extra bytes at end of file
M_Tail ==
  /\ Running /\ mpc = "tail"
  /\ err' = IF Len(file) > Len(buf)
            THEN Append(err, "warning: invalid file_size (extra bytes)")
            ELSE err
  /\ mpc' = "enter"
  /\ ev' = "tail"
  /\ UNCHANGED <<file, argc, fopenOk, bfh, module_align, rc, status, out>>
  /\ DecoderIdle
  /\ UNCHANGED <<imageVars, truthVars, twiceVars>>

\* LoadPass1(binfile + bfh.patch_table_offset, module_base, 0), up to its
\* printf("Patch table:\n")
M_Call ==
  /\ Running /\ mpc = "enter"
  /\ src' = bfh.patch_table_offset
  /\ pc' = "p1_loop"
  /\ out' = Append(out, Txt("Patch table:"))
  /\ trace' = <<src'>>
  /\ entry' = src'
  /\ mpc' = "call"
  /\ ev' = "start"
  /\ UNCHANGED <<file, argc, fopenOk, bfh, module_align, rc, err, status>>
  /\ UNCHANGED <<etype, i, st_ptr, name, cnt, j, first, counter, hi, iters, block>>
  /\ UNCHANGED <<imageVars, truthVars, twiceVars>>

\* LoadPass1 returns: rc = 0; free(binfile); fclose(f); return rc;
M_Return ==
  /\ Running /\ mpc = "call" /\ pc = "done"
  /\ Return(0)
  /\ ev' = "return"
  /\ UNCHANGED <<file, argc, fopenOk, bfh, module_align, err, out>>
  /\ DecoderIdle
  /\ UNCHANGED <<imageVars, truthVars, twiceVars>>

Main ==
  \/ M_Args \/ M_Open \/ M_ReadHeader \/ M_CheckSignature \/ M_CheckAlignment
  \/ M_Dump \/ M_Load \/ M_Tail \/ M_Call \/ M_Return

\* the shift counts tried for module_align_bits
AlignBits == {0, 3, 31, 32, 40, 63, 64}

\* the tables the whole program is run on: none of the records, and one of
\* every kind
MainKinds ==
  {<<>>,
   <<[class |-> "import", named |-> TRUE, n |-> 0],
     [class |-> "import", named |-> FALSE, n |-> 0],
     [class |-> "export", named |-> TRUE, n |-> 0],
     [class |-> "abs", named |-> TRUE, n |-> MaxWords],
     [class |-> "unhandled", named |-> TRUE, n |-> 0],
     [class |-> "main", named |-> FALSE, n |-> 0]>>}

\* the image a header with these fields describes, with d bytes more (or
\* fewer) declared in file_size than the image has
Image(bits, sig, b, tbl, d) ==
  LET body == PadBytes(b) \o EncTable(tbl)
  IN HeaderBytes(bits, sig, HeaderSize + b, HeaderSize + Len(body) + d) \o body

\* the program is started on a file
InitMain ==
  /\ argc \in {1, 2}
  /\ fopenOk \in BOOLEAN
  /\ \E ks \in MainKinds, b \in {0, MaxPad}, bits \in AlignBits,
        sig \in {BIN_SIGNATURE, <<84, 79, 83, 67>>},
        d \in (0 - MaxDelta)..MaxDelta :
       /\ table = TableOf(ks)
       /\ base = HeaderSize + b
       /\ LET img == Image(bits, sig, b, table, d)
          IN \E flen \in {0, HeaderSize - 1, Len(img) - 1, Len(img)} :
               file = SubSeq(img, 1, flen)
  /\ mpc = "start" /\ bfh = NoHeader /\ module_align = 0 /\ rc = -1
  /\ err = <<>> /\ status = "running"
  /\ buf = <<>> /\ alloc = 0
  /\ src = 0 /\ pc = "idle"
  /\ etype = 0 /\ i = 0 /\ st_ptr = 0 /\ name = <<>>
  /\ cnt = 0 /\ j = 0 /\ first = TRUE /\ counter = 0
  /\ out = <<>>
  /\ hi = -1 /\ iters = 0 /\ entry = 0 /\ block = <<>> /\ ev = "exec"
  /\ trace = <<>>
  /\ run = 1 /\ out1 = <<>> /\ trace1 = <<>>

NextMain == Main \/ Decode

SpecMain == InitMain /\ [][NextMain]_vars

Spec == Init /\ [][Next]_vars
(* ---- a second run on the same buffer (the test compares a run's ---- *)
(* ---- output with the output of a run made before)               ---- *)
Ended == pc \in {"done", "crashed"}

Rerun ==
  /\ run = 1 /\ Ended
  /\ run' = 2
  /\ out1' = out
  /\ trace1' = trace
  /\ status' = "running"
  /\ src' = base
  /\ pc' = "p1_loop"
  /\ etype' = 0 /\ i' = 0 /\ st_ptr' = 0 /\ name' = <<>>
  /\ cnt' = 0 /\ j' = 0 /\ first' = TRUE /\ counter' = 0
  /\ out' = <<Txt("Patch table:")>>
  /\ hi' = -1 /\ iters' = 0 /\ entry' = base /\ block' = <<>> /\ ev' = "start"
  /\ trace' = <<base>>
  /\ UNCHANGED <<file, argc, fopenOk, mpc, bfh, module_align, rc, err>>
  /\ UNCHANGED <<imageVars, truthVars>>

NextTwice == Decode \/ Rerun

SpecTwice == Init /\ [][NextTwice]_vars

(* ======================= the claims ======================= *)
\* the buffer holds a whole table: every record and the terminator
WellFormed == buf = SubSeq(buf, 1, base) \o EncTable(table)

\* record b of the table lies inside the buffer
Held(b) == b \in 1..Len(table) /\ Off(table, base, b + 1) <= Len(buf)

\* the values of records a .. a+k
ValuesOf(a, k) == [m \in 1..(k + 1) |-> table[a + m - 1].value]

\* record a is a named import-kind record followed by k import-kind records
\* with empty names
Run(a, k) ==
  /\ a \in 1..Len(table) /\ a + k <= Len(table)
  /\ IsImport(table[a].type) /\ table[a].name # <<>>
  /\ \A m \in (a + 1)..(a + k) : IsImport(table[m].type) /\ table[m].name = <<>>

\* LoadOneImport has just returned
Returned == ev \in {"imp_next", "imp_end"}

\* the last n items of the output
LastOut(n) == SubSeq(out, Len(out) - n + 1, Len(out))

\* C1: every byte the decoder reads lies at an offset below the length of the
\* buffer (a scan that needs a byte at or past the end stops instead of
\* reading it)
C1_ReadsStayInBuffer == hi < Len(buf)

\* C2: on a well-formed table the decoder ends in Done, after as many
\* main-loop iterations as the table has records
C2_DoneAfterOneIterationPerRecord ==
  (WellFormed /\ Ended) => (pc = "done" /\ iters = Len(table))

\* C3: a named import-kind record a, k import-kind records with empty names
\* and then a named record, all inside the buffer: the import-run parser
\* started on a returns having emitted one block of exactly the values of
\* a .. a+k in order, with the cursor on the type byte of record a+k+1; and an
\* entry the main loop reads at the type byte of a record is decoded as that
\* record, under its own type
C3_ImportRunGrouping ==
  /\ \A a \in 1..Len(table), k \in 0..Len(table) :
       ( /\ Returned
         /\ entry = Off(table, base, a)
         /\ Run(a, k)
         /\ Held(a + k + 1)
         /\ table[a + k + 1].name # <<>> )
       => /\ ev = "imp_next"
          /\ block = ValuesOf(a, k)
          /\ LastOut(k + 3) =
               <<Txt("at")>> \o [m \in 1..(k + 1) |-> ValItem(table[a + m - 1].value)]
               \o <<Txt("nl")>>
          /\ src = Off(table, base, a + k + 1)
          /\ pc = "p1_loop"
  /\ \A b \in 1..Len(table) :
       (pc = "p1_switch" /\ entry = Off(table, base, b) /\ Held(b))
       => /\ etype = table[b].type
          /\ i = table[b].value
          /\ name = table[b].name
          /\ out[Len(out)] = Item("entry", etype_to_string(table[b].type), table[b].name, 0)

\* C3 witness: [import 5 "X"][import 7 ""][EXPORT32 9 "Z"][0] is decoded to
\* one block 5 7, then one export line for Z @ 9, then Done
C3_Witness ==
  /\ pc = "done" /\ iters = 2 /\ base = 0
  /\ out = <<Txt("Patch table:"),
             Item("entry", Label("IET_IMM_U32", -1), <<88>>, 0),
             Txt("at"), ValItem(5), ValItem(7), Txt("nl"),
             Item("entry", Label("IET_REL32_EXPORT", -1), <<90>>, 0),
             Item("export", NoLabel, <<90>>, 9)>>

\* C4: an import run (named import-kind record a and k import-kind records
\* with empty names) followed by a record that is not import-kind, whatever
\* its name: the run's block holds the values of a .. a+k only, and the
\* cursor is returned on the type byte of record a+k+1
C4_RunEndsAtNonImport ==
  \A a \in 1..Len(table), k \in 0..Len(table) :
    ( /\ Returned
      /\ entry = Off(table, base, a)
      /\ Run(a, k)
      /\ Held(a + k + 1)
      /\ ~IsImport(table[a + k + 1].type) )
    => /\ block = ValuesOf(a, k)
       /\ src = Off(table, base, a + k + 1)

\* C5 as written: after an ABS_ADDR entry with count n the cursor is
\* 4 + 4*n bytes past the start of the count field
C5_CursorFourPlusFourN ==
  ev = "abs_end" => (j = i /\ src = (entry + 1) + 4 + 4 * j)

\* C5 amended: an ABS_ADDR entry the main loop dispatches with count n has
\* exactly n payload words read and printed, from right behind its name, and
\* the cursor is then 4 + (length of the name + 1) + 4*n bytes past the start
\* of the count field
C5_AbsAddrConsumesNameAndWords ==
  /\ ev = "abs_end" =>
       /\ cnt = i /\ j = cnt
       /\ src = (entry + 1) + 4 + (Len(name) + 1) + 4 * j
       /\ pc = "p1_loop"
  /\ \A b \in 1..Len(table) :
       (ev = "abs_end" /\ entry = Off(table, base, b) /\ Held(b))
       => /\ cnt = Len(table[b].words)
          /\ LastOut(cnt + 2) =
               <<Txt("at")>> \o [m \in 1..cnt |-> ValItem(table[b].words[m])]
               \o <<Txt("nl")>>
          /\ src = Off(table, base, b + 1)

C5_Witness ==
  /\ ev = "abs_end" /\ cnt = MaxWords /\ name # <<>> /\ hi < Len(buf)
  /\ \E b \in 1..Len(table) : entry = Off(table, base, b) /\ Held(b)

\* the items that render a value
ValueKinds == {"val", "export", "main"}

\* C6 as written: an entry of a type the decoder does not handle is consumed
\* (type byte, value, name), the scan goes on with the next entry, and what is
\* printed for it carries its type code, its value and its name
C6_UnhandledCarriesValue ==
  ev = "unhandled" =>
    /\ src = entry + 1 + 4 + Len(name) + 1
    /\ pc = "p1_loop" /\ Running
    /\ \E m \in (Len(out) - 1)..Len(out) : out[m].nm = name
    /\ \E m \in (Len(out) - 1)..Len(out) : out[m].k \in ValueKinds /\ out[m].v = i

\* the label of a type code the switch does not handle
UnhandledLabel(c) ==
  CASE c = 21 -> Label("IET_CODE_HEAP", -1)
    [] c = 22 -> Label("IET_ZEROED_CODE_HEAP", -1)
    [] c = 23 -> Label("IET_DATA_HEAP", -1)
    [] c = 24 -> Label("IET_ZEROED_DATA_HEAP", -1)
    [] OTHER -> Label("IET_#", c)

\* C6 amended: an entry the main loop dispatches under a type it does not
\* handle is consumed (type byte, value, name), the scan goes on with the
\* next entry, and what is printed for it is the entry line with the label of
\* its type and its name, then the UNHANDLED marker: its value is not printed
C6_UnhandledIsSkipped ==
  /\ ev = "unhandled" =>
       /\ src = entry + 1 + 4 + Len(name) + 1
       /\ pc = "p1_loop" /\ Running
       /\ ~IsHandled(etype) /\ etype # IET_END
       /\ LastOut(2) = <<Item("entry", UnhandledLabel(etype), name, 0), Txt("UNHANDLED")>>
  /\ \A b \in 1..Len(table) :
       (ev = "unhandled" /\ entry = Off(table, base, b) /\ Held(b))
       => /\ etype = table[b].type /\ name = table[b].name
          /\ src = Off(table, base, b + 1)

C6_Witness ==
  /\ ev = "unhandled" /\ etype = 26 /\ name # <<>> /\ hi < Len(buf)
  /\ \E b \in 1..Len(table) : entry = Off(table, base, b) /\ Held(b)
\* the exit status of the process: main's return value as a byte
ExitCode == rc % 256

HeaderShort == Len(file) < HeaderSize
BadSignature == ~HeaderShort /\ SubSeq(file, 5, 8) # BIN_SIGNATURE
Opened == argc = 2 /\ fopenOk

\* C7: a file with fewer bytes than the header, or with another signature
\* than "TOSB", or whose alignment check fails, ends the run with a non-zero
\* exit code before any header dump or patch-table output and without
\* LoadPass1 being started; the checks are made in the order incomplete
\* header, signature, alignment (one failure is reported, the first)
C7_HeaderFailureIsFatal ==
  Opened =>
    /\ (HeaderShort \/ BadSignature) =>
         /\ out = <<>> /\ pc = "idle"
         /\ mpc \in {"start", "fopen", "header", "signature", "exit"}
    /\ (status = "returned" /\ HeaderShort) =>
         /\ ExitCode # 0 /\ err = <<"incomplete header">>
    /\ (status = "returned" /\ BadSignature) =>
         /\ ExitCode # 0 /\ err = <<"signature">>
    /\ (ev = "alignment" /\ module_align = 0) =>
         /\ status = "returned" /\ ExitCode # 0
         /\ err = <<"invalid alignment">>
         /\ out = <<>> /\ pc = "idle"
    /\ (status = "returned" /\ ExitCode # 0) => (out = <<>> /\ pc = "idle")

\* C7 witness: a header whose signature and whose alignment both fail is
\* rejected for its signature
C7_Witness ==
  /\ Opened /\ status = "returned" /\ err = <<"signature">>
  /\ bfh.module_align_bits = 64 /\ ExitCode = 255

Warned ==
  \E m \in 1..Len(err) :
    err[m] \in {"warning: invalid file_size (expected, got)",
                "warning: invalid file_size (extra bytes)"}

\* C8: a run that has warned of a file_size that differs from the bytes read,
\* or of bytes after file_size, still starts the patch-table decode and ends
\* with exit code 0
C8_WarningsAreNotFatal ==
  (Warned /\ status # "running") => (status = "returned" /\ pc = "done" /\ ExitCode = 0)

\* m = 2^b
RECURSIVE IsPowerOfTwo(_, _)
IsPowerOfTwo(m, b) ==
  IF b = 0 THEN m = 1 ELSE m > 0 /\ m % 2 = 0 /\ IsPowerOfTwo(m \div 2, b - 1)

\* C9: with a valid signature, module_align_bits in 0..63 gives the non-zero
\* alignment 1 << module_align_bits and is accepted, and a module_align_bits
\* whose shift overflows or gives zero is rejected as a bad alignment
C9_AlignmentRange ==
  ev = "alignment" =>
    /\ bfh.module_align_bits \in 0..63 =>
         (mpc = "dump" /\ IsPowerOfTwo(module_align, bfh.module_align_bits))
    /\ bfh.module_align_bits > 63 =>
         (status = "returned" /\ err = <<"invalid alignment">>)

\* C10: two runs of the decoder on the same buffer from the same offset go
\* through the same cursor positions and print the same output
C10_TwoRunsAgree ==
  (run = 2 /\ Ended) => (out = out1 /\ trace = trace1)

\* C11: in every invocation of the import-run parser the only entry consumed
\* (its value added to the block) with a non-empty name is the first entry the
\* invocation reads, also when that first entry has an empty name; a later
\* entry with a non-empty name ends the run, is not added to the block, and
\* the cursor is returned 5 bytes before its name
C11_OnlyAnchorIsNamed ==
  /\ (ev = "imp_val" /\ name # <<>>) => counter = 1
  /\ ev = "imp_next" =>
       /\ name # <<>> /\ counter >= 1
       /\ Len(block) = counter
       /\ src = st_ptr - 5
       /\ pc = "p1_loop"

\* the items of the output that render an entry: a value of a block, an
\* export line, a main-function line, an UNHANDLED marker
IsRendering(it) == it.k \in {"val", "export", "main", "UNHANDLED"}

Rendered(o) == SelectSeq(o, IsRendering)

\* what renders record r: its value in a block (import kinds), its export
\* line, its payload words (ABS_ADDR), its main-function line, or the marker
RenderOf(r) ==
  CASE IsImport(r.type) -> <<ValItem(r.value)>>
    [] IsExport(r.type) -> <<Item("export", NoLabel, r.name, r.value)>>
    [] r.type = IET_ABS_ADDR -> [m \in 1..Len(r.words) |-> ValItem(r.words[m])]
    [] r.type = IET_MAIN -> <<Item("main", NoLabel, <<>>, r.value)>>
    [] OTHER -> <<Txt("UNHANDLED")>>

RenderAll(tbl) ==
  LET RECURSIVE F(_)
      F(k) == IF k > Len(tbl) THEN <<>> ELSE RenderOf(tbl[k]) \o F(k + 1)
  IN F(1)

\* C12: when the decoder has ended on a well-formed table, the output holds
\* what renders each record before the terminator, once and in the order of
\* the records: none is left out and none is rendered twice
C12_OneItemPerEntry ==
  (WellFormed /\ Ended) => Rendered(out) = RenderAll(table)

\* every import-kind record with an empty name stands behind an import-kind
\* record of a run that starts with a name, and every other record with an
\* empty name stands behind a record that is not import-kind
NoSwallow ==
  \A p \in 1..Len(table) :
    /\ (IsImport(table[p].type) /\ table[p].name = <<>>)
       => \E a \in 1..(p - 1) : Run(a, p - a)
    /\ (~IsImport(table[p].type) /\ table[p].name = <<>>)
       => (p = 1 \/ ~IsImport(table[p - 1].type))

\* on such a table every record is rendered once, in order
DispatchedTablesRenderEachRecord ==
  (WellFormed /\ Ended /\ NoSwallow) => Rendered(out) = RenderAll(table)

\* the line printed for an export or MAIN entry with value v and name nm
LineOf(e, nm, v) ==
  IF e = IET_MAIN THEN Item("main", NoLabel, <<>>, v)
  ELSE Item("export", NoLabel, nm, v)

\* C13: when the main loop has handled an export entry (codes 16-19) or a
\* MAIN entry (code 25), the cursor is exactly 1 + 4 + length(name) + 1 bytes
\* past the entry's type byte and exactly one line has been printed behind
\* the entry line: the export line with the entry's name and value, or the
\* main-function line with its value; for an entry read at a record of the
\* table these are the record's type, name and value, the cursor is on the
\* next record and no byte at or behind the cursor has been read
C13_ExportMainFrame ==
  /\ ev \in {"export", "main"} =>
       /\ (ev = "export") = IsExport(etype)
       /\ (ev = "main") = (etype = IET_MAIN)
       /\ src = entry + 1 + 4 + Len(name) + 1
       /\ pc = "p1_loop" /\ Running
       /\ LastOut(2) = <<Item("entry", etype_to_string(etype), name, 0),
                         LineOf(etype, name, i)>>
  /\ \A b \in 1..Len(table) :
       (ev \in {"export", "main"} /\ entry = Off(table, base, b) /\ Held(b))
       => /\ etype = table[b].type
          /\ LastOut(1) = <<LineOf(table[b].type, table[b].name, table[b].value)>>
          /\ src = Off(table, base, b + 1)
          /\ hi = src - 1

\* C13 witness: a MAIN record has been handled behind a named export record,
\* with every read inside the buffer
C13_Witness ==
  /\ ev = "main" /\ hi < Len(buf)
  /\ \E b \in 2..Len(table) :
       /\ entry = Off(table, base, b) /\ Held(b)
       /\ IsExport(table[b - 1].type) /\ table[b - 1].name # <<>>
       /\ out[Len(out) - 2] =
            Item("export", NoLabel, table[b - 1].name, table[b - 1].value)

\* the offset of the byte the last step read its type from: the cursor
\* before that step
TypeByteAt == trace[Len(trace) - 1]

\* LoadOneImport has just read a type-0 byte that the buffer holds, and has
\* returned
RunHitTerminator == ev = "imp_end" /\ InBuf(TypeByteAt)

\* C14: when the import-run parser has read a type-0 byte of the buffer it has
\* returned with the cursor on that byte, behind which nothing has been read;
\* the main loop's next step reads that byte again and is Done, and no byte
\* behind it is read
C14_RunToTerminatorEndsDecode ==
  /\ [](RunHitTerminator =>
          /\ src = TypeByteAt
          /\ buf[src + 1] = IET_END
          /\ pc = "p1_loop" /\ Running
          /\ hi = src
          /\ LastOut(1) = <<Txt("nl")>>
          /\ ENABLED P1_ReadType)
  /\ [][RunHitTerminator =>
          /\ pc' = "done" /\ ev' = "done"
          /\ src' = src + 1
          /\ hi' = src
          /\ out' = out]_vars

\* C14 witness: the decoder is Done on a whole table that ends with a run of
\* two import-kind records, having printed their block last and read nothing
\* behind the terminator
C14_Witness ==
  /\ WellFormed /\ pc = "done" /\ Len(table) >= 2
  /\ Run(Len(table) - 1, 1)
  /\ LastOut(4) = <<Txt("at"), ValItem(table[Len(table) - 1].value),
                    ValItem(table[Len(table)].value), Txt("nl")>>
  /\ src = Len(buf) /\ hi = Len(buf) - 1

\* C15: whenever the main loop is back at its test after an iteration, the
\* cursor is at a greater offset than the one the iteration read its type byte
\* from, whatever the buffer and whichever rewinds the iteration made; so
\* every iteration starts at a greater offset than the one before it
C15_IterationsAdvance ==
  /\ []((pc = "p1_loop" /\ iters > 0) => src > entry)
  /\ [][(pc = "p1_loop" /\ pc' = "p1_value") =>
          /\ entry' = src
          /\ iters > 0 => entry' > entry]_vars

\* C15 witness: an iteration has made both rewinds (the main loop's to the
\* anchor, the import-run parser's to the next named record) and the next
\* iteration has started at the record the parser rewound to
C15_Witness ==
  /\ pc = "p1_value" /\ iters = 2 /\ hi < Len(buf)
  /\ Len(table) >= 3 /\ Run(1, 1) /\ table[3].name # <<>>
  /\ entry = Off(table, base, 3)
  /\ LastOut(1) = <<Txt("nl")>>
====
